---- MODULE Spec2Model ----
(***************************************************************************)
(* InvoiceIQ: the invoice detail page (app/invoices/[id]/page.tsx), the    *)
(* dashboard (app/page.tsx) and the relational schema (db/schema.sql).     *)
(*                                                                         *)
(* Amounts are JavaScript numbers with two decimals (DECIMAL(12,2) in the  *)
(* schema, step="0.01" on the inputs).  The model stores every number in   *)
(* hundredths: the value v is the integer Scale * v.  The inputs are whole *)
(* numbers, for which products and percentages are exact.                  *)
(***************************************************************************)
EXTENDS Integers, Sequences, FiniteSets, TLC

VARIABLES
    \* ---- invoice detail page: React state of InvoiceReviewPage
    invoiceId,  \* route parameter params?.id
    invoice,    \* InvoiceDetail | null
    loading,
    saving,
    error,      \* string | null
    success,    \* string | null
    fetchPc,    \* position of the fetchInvoice effect
    put,        \* the PUT /invoices/{id} in flight, or NoRequest
    \* ---- dashboard: React state of Home
    file,       \* File | null, a file being its size in bytes
    busy,
    invoices,   \* Invoice[]
    msg,
    msgType,
    uploadPc,   \* position of the running onUpload call
    mountPc,    \* position of the refresh() of the mount effect: fetching, returned
    extracts,   \* number of POST /extract requests in flight
    \* ---- database: rows of the tables of schema.sql
    invoicesTable,
    itemsTable,
    nextInvoiceId,  \* AUTO_INCREMENT counter of invoices
    nextItemId,     \* AUTO_INCREMENT counter of invoice_items
    \* ---- observation
    ops,        \* number of handler calls made on the detail page so far
    lastOp      \* the handler, statement or response that acted last

detailVars == <<invoiceId, invoice, loading, saving, error, success, fetchPc, put, ops>>
dashVars == <<file, busy, invoices, msg, msgType, uploadPc, mountPc, extracts>>
dbVars == <<invoicesTable, itemsTable, nextInvoiceId, nextItemId>>
vars == <<detailVars, dashVars, dbVars, lastOp>>

(***************************************************************************)
(* Bounds of the model.                                                    *)
(***************************************************************************)
\* handler calls (edits, recalculations, saves) made in one visit of the detail page
MaxOps == 2
\* rows ever inserted in invoices / invoice_items (caps the AUTO_INCREMENT counters)
MaxInvoiceRows == 3
MaxItemRows == 3

\* hundredths per unit: the two decimals of every amount
Scale == 100

\* null of a string | null state, and of an optional string field
Null == "<null>"
\* null of the invoice state
NoInvoice == [isNull |-> TRUE]
NoRequest == [isNull |-> TRUE]

(***************************************************************************)
(* Values of the detail page.                                              *)
(***************************************************************************)
\* InvoiceDetail["status"] and the ENUM of invoices.status; the options of the
\* status select
StatusSet == {"PENDING", "APPROVED"}
\* (a variant with a third option)
statusOptionsWithRejected == <<"PENDING", "APPROVED", "REJECTED">>
statusOptions == <<"PENDING", "APPROVED">>

\* the seed rows: INV-1001 and its two items
SeedItems ==
    << [sku |-> "SKU-RED-PEN", description |-> "Red Pen", qty |-> 100 * Scale,
        unit_price |-> 50 * Scale, tax_rate |-> 18 * Scale, line_total |-> 5900 * Scale],
       [sku |-> "SKU-NOTE-A5", description |-> "A5 Notebook", qty |-> 50 * Scale,
        unit_price |-> 100 * Scale, tax_rate |-> 18 * Scale, line_total |-> 5900 * Scale] >>

SeedInvoice ==
    [id |-> 1, supplier_name |-> "Acme Supplies", supplier_gstin |-> "29ABCDE1234F1Z5",
     invoice_no |-> "INV-1001", invoice_date |-> "2025-10-01",
     subtotal |-> 10000 * Scale, tax |-> 1800 * Scale, total |-> 11800 * Scale,
     status |-> "APPROVED", items |-> SeedItems]

\* what GET /invoices/{id} and PUT /invoices/{id} of the backend may answer with:
\* the seed invoice, a freshly extracted one whose amounts do not add up, and one
\* without items and with a date the Date constructor cannot read
ServerInvoices ==
    { SeedInvoice,
      [id |-> 2, supplier_name |-> "Globex Retail", supplier_gstin |-> "27PQRSX9876L1Z3",
       invoice_no |-> "INV-2002", invoice_date |-> "2025-10-01T23:30:00-05:00",
       subtotal |-> 36 * Scale, tax |-> 0, total |-> 45 * Scale, status |-> "PENDING",
       items |-> << [sku |-> "SKU-RED-PEN", description |-> "Red Pen", qty |-> 2 * Scale,
                     unit_price |-> 18 * Scale, tax_rate |-> 2 * Scale,
                     line_total |-> (36 * Scale) + 72] >>],
      [id |-> 3, supplier_name |-> Null, supplier_gstin |-> Null,
       invoice_no |-> "", invoice_date |-> "n/a",
       subtotal |-> 0, tax |-> 0, total |-> 0, status |-> "PENDING", items |-> << >>] }

\* what the user types in a text input, a date input and a number input
TextInputs == {"", "Globex Retail"}
DateInputs == {"", "2025-10-02"}
NumberInputs == {"", "2", "18"}

NumberFields == {"subtotal", "tax", "total"}
ItemTextFields == {"sku", "description"}
ItemNumberFields == {"qty", "unit_price", "tax_rate", "line_total"}

(***************************************************************************)
(* Conversions.                                                            *)
(***************************************************************************)
\* parseFloat on the text of a number input: NaN for text that starts with no number
parseFloat(value) ==
    IF \E n \in 0..99 : ToString(n) = value
    THEN [nan |-> FALSE, num |-> Scale * (CHOOSE n \in 0..99 : ToString(n) = value)]
    ELSE [nan |-> TRUE, num |-> 0]

\* parseFloat(value) || 0: NaN and 0 are falsy
parseFloatOrZero(value) ==
    LET r == parseFloat(value) IN IF r.nan \/ r.num = 0 THEN 0 ELSE r.num

\* value.toUpperCase(), on the texts of TextInputs
toUpperCase(value) ==
    CASE value = "Globex Retail" -> "GLOBEX RETAIL"
      [] OTHER -> value

\* new Date(s).toISOString().slice(0, 10): the UTC calendar day of s; a RangeError
\* ("Invalid time value") for a string the Date constructor cannot read
toISODate(s) ==
    CASE s = "2025-10-01" -> [threw |-> FALSE, day |-> "2025-10-01"]
      [] s = "2025-10-02" -> [threw |-> FALSE, day |-> "2025-10-02"]
      [] s = "2025-10-01T23:30:00-05:00" -> [threw |-> FALSE, day |-> "2025-10-02"]
      [] OTHER -> [threw |-> TRUE, day |-> Null]

\* a string | null | undefined used as a condition
Falsy(s) == s = Null \/ s = ""

\* (a variant without the fallback: a alone)
OrElseNoFallback(a, b) == a

\* a || b on strings
OrElse(a, b) == IF Falsy(a) THEN b ELSE a

\* x * y and x / 100 on numbers held in hundredths
Times(x, y) == (x * y) \div Scale
Over100(x) == x \div 100

(***************************************************************************)
(* The handlers of the detail page, as functions of the invoice of the     *)
(* render they close over.                                                 *)
(***************************************************************************)
\* setInvoice({ ...invoice, [field]: value })
handleFieldChangeOf(inv, field, value) == [inv EXCEPT ![field] = value]

\* setInvoice({ ...invoice, [field]: parseFloat(value) || 0 })
handleNumberChangeOf(inv, field, value) == [inv EXCEPT ![field] = parseFloatOrZero(value)]

\* (a variant that also re-derives the subtotal from the edited items)
updateItemRecalculating(inv, index, field, value) ==
    LET items == [inv.items EXCEPT ![index][field] =
                    IF field \in ItemNumberFields THEN parseFloatOrZero(value) ELSE value]
    IN  [inv EXCEPT !.items = items,
                    !.subtotal = IF Len(items) = 0 THEN 0
                                 ELSE Times(items[1].qty, items[1].unit_price)]

\* copy[index] = { ...copy[index], [field]: ... }; setInvoice({ ...invoice, items: copy })
updateItemOf(inv, index, field, value) ==
    [inv EXCEPT !.items[index][field] =
        IF field \in ItemNumberFields THEN parseFloatOrZero(value) ELSE value]

NewItem ==
    [sku |-> "", description |-> "", qty |-> 1 * Scale, unit_price |-> 0,
     tax_rate |-> 0, line_total |-> 0]

\* setInvoice({ ...invoice, items: [...invoice.items, {...}] })
addItemOf(inv) == [inv EXCEPT !.items = Append(inv.items, NewItem)]

\* items.filter((_, idx) => idx !== index)
FilterOut(items, index) ==
    [k \in 1..(Len(items) - 1) |-> IF k < index THEN items[k] ELSE items[k + 1]]

\* (a variant without the early return on a single item)
removeItemUnguarded(inv, index) == [inv EXCEPT !.items = FilterOut(inv.items, index)]

removeItemOf(inv, index) ==
    IF Len(inv.items) = 1 THEN inv
    ELSE [inv EXCEPT !.items = FilterOut(inv.items, index)]

\* items.reduce((sum, item) => sum + f(item), 0), from the left
RECURSIVE reduceSubtotal(_, _, _)
reduceSubtotal(items, k, sum) ==
    IF k > Len(items) THEN sum
    ELSE reduceSubtotal(items, k + 1, sum + Times(items[k].qty, items[k].unit_price))

RECURSIVE reduceTax(_, _, _)
reduceTax(items, k, sum) ==
    IF k > Len(items) THEN sum
    ELSE reduceTax(items, k + 1,
            sum + Times(Times(items[k].qty, items[k].unit_price), Over100(items[k].tax_rate)))

\* (a variant that takes tax_rate as a fraction, not a percentage)
recalcTotalsWholeRate(inv) ==
    LET subtotal == reduceSubtotal(inv.items, 1, 0)
        tax == Times(subtotal, IF Len(inv.items) = 0 THEN 0 ELSE inv.items[1].tax_rate)
    IN  [inv EXCEPT !.subtotal = subtotal, !.tax = tax, !.total = subtotal + tax]

\* (a variant that also rewrites every line_total)
recalcTotalsWithLines(inv) ==
    LET subtotal == reduceSubtotal(inv.items, 1, 0)
        tax == reduceTax(inv.items, 1, 0)
    IN  [inv EXCEPT !.subtotal = subtotal, !.tax = tax, !.total = subtotal + tax,
                    !.items = [k \in DOMAIN inv.items |->
                        [inv.items[k] EXCEPT !.line_total =
                            Times(Times(inv.items[k].qty, inv.items[k].unit_price),
                                  Scale + Over100(inv.items[k].tax_rate))]]]

recalcTotalsOf(inv) ==
    LET subtotal == reduceSubtotal(inv.items, 1, 0)
        tax == reduceTax(inv.items, 1, 0)
        total == subtotal + tax
    IN  [inv EXCEPT !.subtotal = subtotal, !.tax = tax, !.total = total]

\* the payload of saveInvoice: { ...invoice, invoice_date: ... }
payloadOf(inv) ==
    [inv EXCEPT !.invoice_date =
        IF Falsy(inv.invoice_date) THEN Null ELSE toISODate(inv.invoice_date).day]

payloadThrows(inv) == ~Falsy(inv.invoice_date) /\ toISODate(inv.invoice_date).threw

(***************************************************************************)
(* Responses of the backend, which is not part of the repository: any of   *)
(* the outcomes a fetch can have.                                          *)
(***************************************************************************)
\* outcomes of fetch + res.json(): an OK response with a body, an OK or non-OK
\* response whose body is no JSON, a non-OK response with a JSON body (with or
\* without "detail"), and a rejected fetch
Responses(bodies) ==
    {[kind |-> "ok", data |-> d] : d \in bodies}
    \cup {[kind |-> "notOk", detail |-> d] : d \in {Null, "Invoice is locked"}}
    \cup {[kind |-> k, message |-> "Unexpected end of JSON input"] : k \in {"okBadJson", "notOkBadJson"}}
    \cup {[kind |-> "rejected", message |-> m] : m \in {"Failed to fetch", ""}}

\* the message of the Error a try block ends with, for a response that is not
\* an OK response with a JSON body; fallback is the text of `detail || fallback`
ThrownMessage(resp, fallback) ==
    CASE resp.kind = "notOk" -> OrElse(resp.detail, fallback)
      [] OTHER -> resp.message

(***************************************************************************)
(* The detail page.                                                        *)
(***************************************************************************)
InitDetail ==
    /\ invoiceId \in {Null, "1"}
    /\ invoice = NoInvoice
    /\ loading = TRUE
    /\ saving = FALSE
    /\ error = Null
    /\ success = Null
    /\ fetchPc = "mounted"
    /\ put = NoRequest
    /\ ops = 0

\* the editable view is rendered: neither of the two early returns is taken
Rendered == ~loading /\ invoice # NoInvoice

\* disabled attribute of the Save button and of a Remove button
SaveDisabled == saving
RemoveDisabled == Len(invoice.items) = 1

\* the mount effect: fetchInvoice up to its first await
fetchInvoice ==
    /\ fetchPc = "mounted"
    /\ fetchPc' = IF Falsy(invoiceId) THEN "returned" ELSE "fetching"
    /\ lastOp' = "fetchInvoice"
    /\ UNCHANGED <<invoiceId, invoice, loading, saving, error, success, put, ops>>
    /\ UNCHANGED <<dashVars, dbVars>>

\* fetchInvoice from the answer of GET /invoices/{id} on
fetchInvoiceDone ==
    /\ fetchPc = "fetching"
    /\ \E resp \in Responses(ServerInvoices) :
        /\ IF resp.kind = "ok"
           THEN invoice' = resp.data /\ error' = error
           ELSE /\ invoice' = invoice
                /\ error' = OrElse(IF resp.kind \in {"notOk", "notOkBadJson"}
                                   THEN "Invoice not found"
                                   ELSE resp.message,
                                   "Failed to load invoice")
        /\ lastOp' = IF resp.kind = "ok" THEN "fetchOk" ELSE "fetchFailed"
    /\ loading' = FALSE
    /\ fetchPc' = "returned"
    /\ UNCHANGED <<invoiceId, saving, success, put, ops>>
    /\ UNCHANGED <<dashVars, dbVars>>

\* what every handler call of the page shares: the view is rendered, and the
\* call is counted
Handler(name) ==
    /\ Rendered
    /\ ops < MaxOps
    /\ ops' = ops + 1
    /\ lastOp' = name
    /\ UNCHANGED <<invoiceId, loading, fetchPc>>
    /\ UNCHANGED <<dashVars, dbVars>>

\* onChange of the supplier name, GSTIN, invoice number, date and status inputs
handleFieldChange(field, value) ==
    /\ Handler("handleFieldChange")
    /\ invoice' = handleFieldChangeOf(invoice, field, value)
    /\ UNCHANGED <<saving, error, success, put>>

\* the (field, value) pairs the inputs of the page call handleFieldChange with
FieldChanges ==
    {<<"supplier_name", v>> : v \in TextInputs}
    \cup {<<"supplier_gstin", toUpperCase(v)>> : v \in TextInputs}
    \cup {<<"invoice_no", v>> : v \in TextInputs}
    \cup {<<"invoice_date", v>> : v \in DateInputs}
    \cup {<<"status", statusOptions[i]>> : i \in DOMAIN statusOptions}

handleNumberChange(field, value) ==
    /\ Handler("handleNumberChange")
    /\ invoice' = handleNumberChangeOf(invoice, field, value)
    /\ UNCHANGED <<saving, error, success, put>>

updateItem(index, field, value) ==
    /\ Handler("updateItem")
    /\ invoice' = updateItemOf(invoice, index, field, value)
    /\ UNCHANGED <<saving, error, success, put>>

ItemInputs(field) == IF field \in ItemNumberFields THEN NumberInputs ELSE TextInputs

addItem ==
    /\ Handler("addItem")
    /\ invoice' = addItemOf(invoice)
    /\ UNCHANGED <<saving, error, success, put>>

removeItem(index) ==
    /\ Handler("removeItem")
    /\ ~RemoveDisabled
    /\ invoice' = removeItemOf(invoice, index)
    /\ UNCHANGED <<saving, error, success, put>>

recalcTotals ==
    /\ Handler("recalcTotals")
    /\ invoice' = recalcTotalsOf(invoice)
    /\ UNCHANGED <<saving, error, success, put>>

\* saveInvoice up to its await: the payload is built and the PUT issued, or
\* toISOString throws and catch and finally run at once
saveInvoice ==
    /\ Handler("saveInvoice")
    /\ ~SaveDisabled
    /\ success' = Null
    /\ IF payloadThrows(invoice)
       THEN /\ error' = OrElse("Invalid time value", "Failed to save invoice")
            /\ saving' = FALSE
            /\ put' = put
       ELSE /\ error' = Null
            /\ saving' = TRUE
            /\ put' = payloadOf(invoice)
    /\ UNCHANGED invoice

\* the bodies PUT /invoices/{id} may answer with: the invoice as sent, or as the
\* backend holds it
SaveBodies(payload) == {payload} \cup ServerInvoices

\* saveInvoice from the answer of the PUT on
saveInvoiceDone ==
    /\ put # NoRequest
    /\ \E resp \in Responses(SaveBodies(put)) :
        IF resp.kind = "ok"
        THEN /\ invoice' = resp.data
             /\ success' = "Invoice updated successfully"
             /\ error' = error
             /\ lastOp' = "saveOk"
        ELSE /\ invoice' = invoice
             /\ success' = success
             /\ error' = OrElse(ThrownMessage(resp, "Failed to save invoice"),
                                "Failed to save invoice")
             /\ lastOp' = "saveFailed"
    /\ saving' = FALSE
    /\ put' = NoRequest
    /\ UNCHANGED <<invoiceId, loading, fetchPc, ops>>
    /\ UNCHANGED <<dashVars, dbVars>>

\* the indexes the rendered item rows call updateItem and removeItem with
Indexes == IF invoice = NoInvoice THEN {} ELSE DOMAIN invoice.items

NextDetail ==
    \/ fetchInvoice
    \/ fetchInvoiceDone
    \/ \E c \in FieldChanges : handleFieldChange(c[1], c[2])
    \/ \E f \in NumberFields, v \in NumberInputs : handleNumberChange(f, v)
    \/ \E i \in Indexes, f \in ItemTextFields \cup ItemNumberFields :
           \E v \in ItemInputs(f) : updateItem(i, f, v)
    \/ addItem
    \/ \E i \in Indexes : removeItem(i)
    \/ recalcTotals
    \/ saveInvoice
    \/ saveInvoiceDone

(***************************************************************************)
(* The dashboard.                                                          *)
(***************************************************************************)
NoFile == [isNull |-> TRUE]

\* 5 * 1024 * 1024 bytes
MaxFileSize == 5 * 1024 * 1024

\* the files the user may pick, by size: around the limit of onUpload
Files == {[size |-> n] : n \in {1024, MaxFileSize - 1, MaxFileSize, MaxFileSize + 1}}

\* rows of GET /invoices
ListedSeed ==
    [id |-> 1, supplier_name |-> "Acme Supplies", invoice_no |-> "INV-1001",
     total |-> 11800 * Scale, status |-> "APPROVED", created_at |-> "2025-10-01T00:00:00"]
ListedNew ==
    [id |-> 2, supplier_name |-> "Globex Retail", invoice_no |-> "INV-2002",
     total |-> 45 * Scale, status |-> "PENDING", created_at |-> "2025-10-02T00:00:00"]

\* JSON bodies of GET /invoices: with an invoices array (empty or not), or without
ListBodies ==
    {[invoices |-> l] : l \in {<< >>, <<ListedSeed>>, <<ListedNew, ListedSeed>>}}
    \cup {[count |-> 0]}

\* JSON bodies of POST /extract: the extracted invoice, or a body without a total
ExtractBodies ==
    {[id |-> 2, invoice_no |-> "INV-2002", total |-> 45 * Scale],
     [id |-> 4, invoice_no |-> "INV-4004", total |-> (1234 * Scale) + 50],
     [id |-> 5, invoice_no |-> "INV-5005"]}

\* (a variant that does not pad the decimals)
toFixedUnpadded(n) == ToString(n \div Scale) \o "." \o ToString(n % Scale)

\* n.toFixed(2) of a number held in hundredths
toFixed2(n) ==
    LET cents == n % Scale
    IN  ToString(n \div Scale) \o "." \o (IF cents < 10 THEN "0" ELSE "") \o ToString(cents)

\* the template literal of the success message, without its three symbols
\* (check mark, bullet, rupee sign)
SuccessMessage(data) ==
    "Extracted invoice " \o data.invoice_no \o " Total " \o toFixed2(data.total)

\* the template literal throws a TypeError when data.total is undefined
SuccessMessageThrows(data) == "total" \notin DOMAIN data

\* data.invoices || []
InvoicesOf(data) == IF "invoices" \in DOMAIN data THEN data.invoices ELSE << >>

InitDash ==
    /\ file = NoFile
    /\ busy = FALSE
    /\ invoices = << >>
    /\ msg = ""
    /\ msgType = "info"
    /\ uploadPc = "idle"
    /\ mountPc = "fetching"
    /\ extracts = 0

\* (a variant that leaves the button enabled during an upload)
ExtractDisabledWhileIdle == file = NoFile

\* disabled attribute of the Extract button and of the file input
ExtractDisabled == file = NoFile \/ busy
FileInputDisabled == busy

\* the size check of onUpload
TooLarge(f) == f.size > MaxFileSize

\* (a variant whose catch block also empties the list)
refreshResultClearing(resp) ==
    IF resp.kind = "ok"
    THEN [invoices |-> InvoicesOf(resp.data), msg |-> msg, msgType |-> msgType]
    ELSE [invoices |-> << >>, msg |-> "Failed to load invoices", msgType |-> "error"]

\* refresh() from the answer of GET /invoices on: the new list, message and type
refreshResult(resp) ==
    IF resp.kind = "ok"
    THEN [invoices |-> InvoicesOf(resp.data), msg |-> msg, msgType |-> msgType]
    ELSE [invoices |-> invoices, msg |-> "Failed to load invoices", msgType |-> "error"]

\* useEffect(() => { refresh(); }, []): the effect runs with the first render, so
\* its GET /invoices is in flight from the start; this is refresh from the
\* answer on
mountRefreshDone ==
    /\ mountPc = "fetching"
    /\ \E resp \in Responses(ListBodies) :
        LET r == refreshResult(resp) IN
        /\ invoices' = r.invoices
        /\ msg' = r.msg
        /\ msgType' = r.msgType
        /\ lastOp' = IF resp.kind = "ok" THEN "mountRefreshOk" ELSE "mountRefreshFailed"
    /\ mountPc' = "returned"
    /\ UNCHANGED <<file, busy, uploadPc, extracts>>
    /\ UNCHANGED <<detailVars, dbVars>>

\* onChange of the file input: e.target.files?.[0] || null
setFile(f) ==
    /\ ~FileInputDisabled
    /\ file' = f
    /\ lastOp' = "setFile"
    /\ UNCHANGED <<busy, invoices, msg, msgType, uploadPc, mountPc, extracts>>
    /\ UNCHANGED <<detailVars, dbVars>>

\* onUpload up to its await: the two checks, then the POST /extract is issued
onUpload ==
    /\ ~ExtractDisabled
    /\ IF file = NoFile
       THEN /\ msg' = "Please select a file"
            /\ msgType' = "error"
            /\ lastOp' = "onUploadRefused"
            /\ UNCHANGED <<busy, uploadPc, extracts>>
       ELSE IF TooLarge(file)
       THEN /\ msg' = "File size must be less than 5MB"
            /\ msgType' = "error"
            /\ lastOp' = "onUploadRefused"
            /\ UNCHANGED <<busy, uploadPc, extracts>>
       ELSE /\ busy' = TRUE
            /\ msg' = ""
            /\ msgType' = msgType
            /\ uploadPc' = "posting"
            /\ extracts' = extracts + 1
            /\ lastOp' = "onUploadPosted"
    /\ UNCHANGED <<file, invoices, mountPc>>
    /\ UNCHANGED <<detailVars, dbVars>>

\* does the try block of onUpload throw before it reaches refresh()
extractThrows(resp) ==
    IF resp.kind = "ok" THEN SuccessMessageThrows(resp.data) ELSE TRUE

extractError(resp) ==
    IF resp.kind = "ok"
    THEN "Cannot read properties of undefined (reading 'toFixed')"
    ELSE ThrownMessage(resp, "Upload failed")

\* onUpload from the answer of POST /extract on, up to the await of refresh()
onUploadResponse ==
    /\ uploadPc = "posting"
    /\ extracts' = extracts - 1
    /\ \E resp \in Responses(ExtractBodies) :
        IF extractThrows(resp)
        THEN /\ msg' = OrElse(extractError(resp), "An error occurred")
             /\ msgType' = "error"
             /\ file' = file
             /\ busy' = FALSE
             /\ uploadPc' = "idle"
             /\ lastOp' = IF resp.kind \in {"ok", "okBadJson"}
                          THEN "onUploadFailedAfterOk" ELSE "onUploadFailed"
        ELSE /\ msg' = SuccessMessage(resp.data)
             /\ msgType' = "success"
             /\ file' = NoFile
             /\ busy' = busy
             /\ uploadPc' = "refreshing"
             /\ lastOp' = "onUploadExtracted"
    /\ UNCHANGED <<invoices, mountPc>>
    /\ UNCHANGED <<detailVars, dbVars>>

\* onUpload from the answer of the GET /invoices of its refresh() on
onUploadRefreshed ==
    /\ uploadPc = "refreshing"
    /\ \E resp \in Responses(ListBodies) :
        LET r == refreshResult(resp) IN
        /\ invoices' = r.invoices
        /\ msg' = r.msg
        /\ msgType' = r.msgType
        /\ lastOp' = IF resp.kind = "ok" THEN "onUploadDone" ELSE "onUploadDoneRefreshFailed"
    /\ busy' = FALSE
    /\ uploadPc' = "idle"
    /\ UNCHANGED <<file, mountPc, extracts>>
    /\ UNCHANGED <<detailVars, dbVars>>

NextDash ==
    \/ mountRefreshDone
    \/ \E f \in Files \cup {NoFile} : setFile(f)
    \/ onUpload
    \/ onUploadResponse
    \/ onUploadRefreshed

(***************************************************************************)
(* The tables invoices and invoice_items under the schema.                 *)
(***************************************************************************)
\* an INSERT that names no status column
Default == "DEFAULT"

\* status ENUM('PENDING','APPROVED') DEFAULT 'PENDING'
statusColumn(given) == IF given = Default THEN "PENDING" ELSE given

\* FOREIGN KEY (invoice_id) REFERENCES invoices(id): the parent row exists
foreignKeyHolds(table, invoice_id) == \E r \in table : r.id = invoice_id

\* (a variant without the cascade)
onDeleteNoAction(items, id) == items

\* ON DELETE CASCADE: the child rows that stay when invoice `id` is deleted
onDeleteCascade(items, id) == {r \in items : r.invoice_id # id}

InitDb ==
    /\ invoicesTable = {}
    /\ itemsTable = {}
    /\ nextInvoiceId = 1
    /\ nextItemId = 1

\* INSERT INTO invoices (..., status) VALUES (...), or without the status column
insertInvoice(invoice_no, status) ==
    /\ nextInvoiceId <= MaxInvoiceRows
    /\ invoicesTable' = invoicesTable \cup
            {[id |-> nextInvoiceId, invoice_no |-> invoice_no, status |-> statusColumn(status)]}
    /\ nextInvoiceId' = nextInvoiceId + 1
    /\ lastOp' = IF status = Default THEN "insertInvoiceDefault" ELSE "insertInvoice"
    /\ UNCHANGED <<itemsTable, nextItemId>>
    /\ UNCHANGED <<detailVars, dashVars>>

\* INSERT INTO invoice_items (invoice_id, sku, ...) VALUES (...): refused when the
\* foreign key does not hold
insertItem(invoice_id, sku) ==
    /\ nextItemId <= MaxItemRows
    /\ IF foreignKeyHolds(invoicesTable, invoice_id)
       THEN /\ itemsTable' = itemsTable \cup
                    {[id |-> nextItemId, invoice_id |-> invoice_id, sku |-> sku]}
            /\ nextItemId' = nextItemId + 1
            /\ lastOp' = "insertItem"
       ELSE /\ UNCHANGED <<itemsTable, nextItemId>>
            /\ lastOp' = "insertItemRefused"
    /\ UNCHANGED <<invoicesTable, nextInvoiceId>>
    /\ UNCHANGED <<detailVars, dashVars>>

\* DELETE FROM invoices WHERE id = ...
deleteInvoice(id) ==
    /\ \E r \in invoicesTable : r.id = id
    /\ invoicesTable' = {r \in invoicesTable : r.id # id}
    /\ itemsTable' = onDeleteCascade(itemsTable, id)
    /\ lastOp' = "deleteInvoice"
    /\ UNCHANGED <<nextInvoiceId, nextItemId>>
    /\ UNCHANGED <<detailVars, dashVars>>

NextDb ==
    \/ \E n \in {"INV-1001"}, s \in StatusSet \cup {Default} : insertInvoice(n, s)
    \/ \E i \in 1..(MaxInvoiceRows + 1), sku \in {"SKU-RED-PEN"} : insertItem(i, sku)
    \/ \E i \in 1..MaxInvoiceRows : deleteInvoice(i)

(***************************************************************************)
(* Specifications: one per part, the other parts at rest.                  *)
(***************************************************************************)
Init == InitDetail /\ InitDash /\ InitDb /\ lastOp = "none"

Next == NextDetail \/ NextDash \/ NextDb

\* the three parts side by side
Spec == Init /\ [][Next]_vars

SpecDetail == Init /\ [][NextDetail]_vars
SpecDash == Init /\ [][NextDash]_vars
SpecDb == Init /\ [][NextDb]_vars

\* the dashboard, every request of a running onUpload being answered in the end
\* (a fetch resolves or rejects)
SpecDashFair ==
    SpecDash /\ WF_vars(onUploadResponse) /\ WF_vars(onUploadRefreshed)

\* the detail page or the tables: the behaviours of SpecDetail and those of SpecDb
\* (the two share no state, so one acts only while the other has not started)
DetailAtRest == fetchPc = "mounted"
DbAtRest == nextInvoiceId = 1 /\ nextItemId = 1
NextEither ==
    \/ DbAtRest /\ fetchInvoice
    \/ DbAtRest /\ fetchInvoiceDone
    \/ DbAtRest /\ \E c \in FieldChanges : handleFieldChange(c[1], c[2])
    \/ DbAtRest /\ \E f \in NumberFields, v \in NumberInputs : handleNumberChange(f, v)
    \/ DbAtRest /\ \E i \in Indexes, f \in ItemTextFields \cup ItemNumberFields :
                       \E v \in ItemInputs(f) : updateItem(i, f, v)
    \/ DbAtRest /\ addItem
    \/ DbAtRest /\ \E i \in Indexes : removeItem(i)
    \/ DbAtRest /\ recalcTotals
    \/ DbAtRest /\ saveInvoice
    \/ DbAtRest /\ saveInvoiceDone
    \/ DetailAtRest /\ \E n \in {"INV-1001"}, st \in StatusSet \cup {Default} : insertInvoice(n, st)
    \/ DetailAtRest /\ \E i \in 1..(MaxInvoiceRows + 1), sku \in {"SKU-RED-PEN"} : insertItem(i, sku)
    \/ DetailAtRest /\ \E i \in 1..MaxInvoiceRows : deleteInvoice(i)
SpecEither == Init /\ [][NextEither]_vars

(***************************************************************************)
(* Properties.                                                             *)
(***************************************************************************)
\* the sum of a function's values
RECURSIVE SumOf(_)
SumOf(f) ==
    IF DOMAIN f = {} THEN 0
    ELSE LET i == CHOOSE i \in DOMAIN f : TRUE
         IN  f[i] + SumOf([j \in DOMAIN f \ {i} |-> f[j]])

\* qty * unit_price, qty * unit_price * tax_rate / 100 and
\* qty * unit_price * (1 + tax_rate / 100) of an item, in hundredths
LineAmount(item) == (item.qty * item.unit_price) \div Scale
LineTax(item) == (LineAmount(item) * item.tax_rate) \div (Scale * 100)
LineTotal(item) == LineAmount(item) + LineTax(item)

SumQtyPrice(items) == SumOf([k \in DOMAIN items |-> LineAmount(items[k])])
SumTax(items) == SumOf([k \in DOMAIN items |-> LineTax(items[k])])

\* C1: in the state right after recalcTotals, subtotal is the sum over the items
\* of qty*unit_price, tax the sum of qty*unit_price*tax_rate/100 and total is
\* subtotal + tax; recalcTotals applied once more changes nothing.
C1_RecalcTotals ==
    lastOp = "recalcTotals" =>
        /\ invoice.subtotal = SumQtyPrice(invoice.items)
        /\ invoice.tax = SumTax(invoice.items)
        /\ invoice.total = invoice.subtotal + invoice.tax
        /\ recalcTotalsOf(invoice) = invoice

\* recalcTotals has acted on items with tax, and has changed the totals loaded
C1_Witness ==
    /\ lastOp = "recalcTotals"
    /\ invoice.id = 2
    /\ Len(invoice.items) >= 1
    /\ invoice.tax > 0
    /\ invoice.total # 45 * Scale

Totals(inv) == <<inv.subtotal, inv.tax, inv.total>>

\* C2: updateItem, addItem, removeItem and handleFieldChange leave subtotal, tax
\* and total as they are, and handleNumberChange on one of the three fields
\* changes that field alone.
C2_EditsLeaveTotals ==
    [][ /\ ( \/ \E c \in FieldChanges : handleFieldChange(c[1], c[2])
             \/ \E i \in Indexes, f \in ItemTextFields \cup ItemNumberFields :
                    \E v \in ItemInputs(f) : updateItem(i, f, v)
             \/ addItem
             \/ \E i \in Indexes : removeItem(i) )
           => Totals(invoice') = Totals(invoice)
        /\ \A f \in NumberFields, v \in NumberInputs :
              handleNumberChange(f, v) => invoice' = [invoice EXCEPT ![f] = invoice'[f]]
      ]_vars

\* an edit of the seed invoice, whose amounts add up, has left total # subtotal + tax
C2_Witness ==
    /\ lastOp \in {"handleNumberChange", "updateItem"}
    /\ invoice.id = 1
    /\ invoice.total # invoice.subtotal + invoice.tax

\* C3 (as claimed): after recalcTotals every item has
\* line_total = qty * unit_price * (1 + tax_rate/100).
C3_RecalcSetsLineTotals ==
    lastOp = "recalcTotals" =>
        \A k \in DOMAIN invoice.items : invoice.items[k].line_total = LineTotal(invoice.items[k])

\* C3 (amended): recalcTotals writes subtotal, tax and total and nothing else;
\* every item, its line_total included, stays as it was.
C3_RecalcLeavesItems ==
    [][recalcTotals =>
          /\ invoice'.items = invoice.items
          /\ invoice' = [invoice EXCEPT !.subtotal = invoice'.subtotal,
                                        !.tax = invoice'.tax,
                                        !.total = invoice'.total]
      ]_vars

\* recalcTotals has acted and an item's line_total does not follow from its
\* qty, unit_price and tax_rate
C3_Witness ==
    /\ lastOp = "recalcTotals"
    /\ \E k \in DOMAIN invoice.items : invoice.items[k].line_total # LineTotal(invoice.items[k])

\* C4: every invoice_items row references exactly one invoices row; a refused
\* insert adds no row; a delete of an invoice removes exactly the items of that
\* invoice.
C4_ItemsReferenceInvoice ==
    /\ [](\A it \in itemsTable :
            Cardinality({r \in invoicesTable : r.id = it.invoice_id}) = 1)
    /\ [][\A i \in 1..(MaxInvoiceRows + 1) :
            /\ (\E sku \in {"SKU-RED-PEN"} : insertItem(i, sku))
               /\ (\A r \in invoicesTable : r.id # i)
               => itemsTable' = itemsTable
            /\ deleteInvoice(i)
               => /\ itemsTable \ itemsTable' = {it \in itemsTable : it.invoice_id = i}
                  /\ itemsTable' \subseteq itemsTable
         ]_vars

\* an invoice with items has been deleted while another invoice keeps its items
C4_Witness ==
    /\ lastOp = "deleteInvoice"
    /\ itemsTable # {}
    /\ Cardinality(itemsTable) < nextItemId - 1

C6_PostOnlyBelowLimit ==
    lastOp = "onUploadPosted" => file # NoFile /\ file.size < MaxFileSize

\* C7: removeItem on a single item changes nothing; on n >= 2 items it yields
\* the n-1 others in their order; once the invoice has an item, addItem,
\* removeItem and updateItem keep it with at least one.
C7_RemoveKeepsOne ==
    /\ [](invoice # NoInvoice /\ Len(invoice.items) = 1 => removeItemOf(invoice, 1) = invoice)
    /\ [][\A i \in Indexes : removeItem(i) =>
            /\ Len(invoice'.items) = Len(invoice.items) - 1
            /\ \A k \in DOMAIN invoice'.items :
                  invoice'.items[k] = invoice.items[IF k < i THEN k ELSE k + 1]
         ]_vars
    /\ [][ /\ invoice # NoInvoice
           /\ Len(invoice.items) >= 1
           /\ ( \/ addItem
                \/ \E i \in Indexes : removeItem(i)
                \/ \E i \in Indexes, f \in ItemTextFields \cup ItemNumberFields :
                       \E v \in ItemInputs(f) : updateItem(i, f, v) )
           => Len(invoice'.items) >= 1
         ]_vars

\* removeItem has taken the seed invoice from two items to one
C7_Witness ==
    /\ lastOp = "removeItem"
    /\ invoice.id = 1
    /\ Len(invoice.items) = 1

\* C8: a failed PUT leaves the invoice as it was, sets a non-empty error, leaves
\* success null and ends with saving false.
C8_FailedSave ==
    [][saveInvoiceDone /\ lastOp' = "saveFailed" =>
          /\ invoice' = invoice
          /\ ~Falsy(error')
          /\ success' = Null
          /\ saving' = FALSE
      ]_vars

\* the PUT of an edited seed invoice has failed
C8_Witness ==
    /\ lastOp = "saveFailed"
    /\ invoice.id = 1
    /\ invoice # SeedInvoice
    /\ error = "Failed to save invoice"

\* C9: at most one POST /extract is in flight, busy is true exactly while an
\* onUpload call is running, and busy always returns to false.
C9_BusyWhileUploading ==
    /\ [](extracts <= 1)
    /\ [](busy <=> uploadPc # "idle")
    /\ [](extracts = 1 <=> uploadPc = "posting")
    /\ (busy ~> ~busy)

\* an upload has gone through its refresh and ended
C9_Witness ==
    /\ lastOp = "onUploadDoneRefreshFailed"
    /\ ~busy
    /\ extracts = 0

\* the success messages of the bodies of ExtractBodies
ExtractedMessages ==
    {"Extracted invoice INV-2002 Total 45.00", "Extracted invoice INV-4004 Total 1234.50"}

\* onUpload has ended after an OK response and its refresh()
Finished == {"onUploadDone", "onUploadDoneRefreshFailed"}

\* C10 (as claimed): when an onUpload whose POST returned OK has finished, the
\* file is cleared and the message is the success message, of type 'success'
\* (stated for the OK responses that reach refresh(): those with a total).
C10_SuccessShown ==
    lastOp \in Finished =>
        /\ file = NoFile
        /\ msgType = "success"
        /\ msg \in ExtractedMessages

\* C10 (amended): for an OK response whose body has a total, the response sets
\* the success message and clears the file; until onUpload has finished only a
\* failed refresh changes the message, to 'Failed to load invoices' of type
\* 'error'; so at the end the file is cleared and the message is one of the two.
C10_SuccessUnlessRefreshFails ==
    /\ [][onUploadResponse /\ uploadPc' = "refreshing" =>
            file' = NoFile /\ msgType' = "success" /\ msg' \in ExtractedMessages]_vars
    /\ [][uploadPc = "refreshing" =>
            /\ file' = NoFile
            /\ \/ msg' = msg /\ msgType' = msgType
               \/ /\ msg' = "Failed to load invoices" /\ msgType' = "error"
                  /\ lastOp' \in {"mountRefreshFailed", "onUploadDoneRefreshFailed"}]_vars
    /\ [](lastOp \in Finished =>
            /\ ~busy
            /\ file = NoFile
            /\ \/ msgType = "success" /\ msg \in ExtractedMessages
               \/ msgType = "error" /\ msg = "Failed to load invoices")
    /\ [](lastOp = "onUploadDoneRefreshFailed" => msgType = "error")

\* an upload has finished with its success message shown
C10_Witness ==
    /\ lastOp = "onUploadDone"
    /\ ~busy
    /\ file = NoFile
    /\ msgType = "success"
    /\ msg = "Extracted invoice INV-4004 Total 1234.50"

\* the GET /invoices requests in flight
RefreshesInFlight ==
    (IF mountPc = "fetching" THEN 1 ELSE 0) + (IF uploadPc = "refreshing" THEN 1 ELSE 0)

\* C11: a step in which the POST /extract or a refresh fails leaves the invoice
\* list as it was and sets the message type to 'error'; a failed upload also
\* keeps the selected file and issues no refresh.
C11_FailureKeepsList ==
    /\ [][lastOp' \in {"onUploadFailed", "onUploadFailedAfterOk"} /\ onUploadResponse =>
            /\ invoices' = invoices
            /\ msgType' = "error"
            /\ file' = file /\ file' # NoFile
            /\ uploadPc' = "idle"
            /\ RefreshesInFlight' = RefreshesInFlight
         ]_vars
    /\ [][lastOp' \in {"mountRefreshFailed", "onUploadDoneRefreshFailed"}
          /\ (mountRefreshDone \/ onUploadRefreshed) =>
            /\ invoices' = invoices
            /\ msgType' = "error"
         ]_vars

\* the refresh of an upload has failed and the list loaded before is still shown
C11_Witness ==
    /\ lastOp = "onUploadDoneRefreshFailed"
    /\ Len(invoices) = 2
    /\ msgType = "error"
    /\ msg = "Failed to load invoices"

\* C12 (as claimed): every mount leaves the loading state, for every value of
\* the route parameter id, a missing one included: once the fetchInvoice effect
\* has run to its end, loading is false (and then the view shown is the editable
\* invoice or the 'not found' view, as invoice is non-null or null).
C12_MountLeavesLoading ==
    fetchPc = "returned" => ~loading

====
